---- MODULE Spec2Model ----
(***************************************************************************)
(* PlayButton (src/src/index.js): a React component that binds one Howl    *)
(* audio session to a progress loop and an icon morph loop.                *)
(*                                                                         *)
(* The component instance is modelled as a record `c` that the methods     *)
(* transform (this.props, this.state, this.howler, the frame and timer     *)
(* queues of the window); an action runs one whole handler and commits     *)
(* the record to the variables.                                            *)
(***************************************************************************)
EXTENDS Integers, Sequences, FiniteSets, TLC

\* ------------------------------------------------------------------ bounds
MaxTime == 2
MaxUpdates == 3
MaxSessions == 2

\* -------------------------------------------------------- program constants
MsPerSecond == 1000

\* ------------------------------------------------------------ input domains
Urls == {"A", "B"}
InitialUrl == "A"
fadeInLengthDefault == 0

\* The configurations the component is constructed with: the zero lengths
\* (fadeOutLength's default) and non-zero ones.
Lengths ==
    { [iconAnimationLength |-> 0, fadeOutLength |-> 0],
      [iconAnimationLength |-> 1, fadeOutLength |-> 1] }

\* Length in seconds of the clip behind a url, as the engine reports it.
ClipSeconds(url) == IF url = "A" THEN 1 ELSE 2

\* ------------------------------------------------- JavaScript number values
\* A finite number is a normalised fraction <<n, d>> with d > 0; NaN is <<0, 0>>
\* and +-Infinity is <<+-1, 0>>.
NaN == <<0, 0>>

Abs(n) == IF n < 0 THEN -n ELSE n

RECURSIVE GCD(_, _)
GCD(a, b) == IF b = 0 THEN a ELSE GCD(b, a % b)

\* Operands are evaluated once, to values, before an operator is applied: each
\* operator below binds them and picks the one result.
Num(n, d) ==
    CHOOSE r \in {IF q = 0 THEN (IF p = 0 THEN NaN ELSE <<(IF p > 0 THEN 1 ELSE -1), 0>>)
                  ELSE IF q = 1 THEN <<p, 1>>
                  ELSE LET s == IF q < 0 THEN -1 ELSE 1
                           g == GCD(Abs(p), Abs(q))
                       IN  <<(s * p) \div g, (s * q) \div g>> : p \in {n}, q \in {d}} : TRUE

Lit(n) == <<n, 1>>
IsFinite(x) == x[2] > 0

NumAdd(x, y) ==
    CHOOSE r \in {IF IsFinite(a) /\ IsFinite(b)
                  THEN Num(a[1] * b[2] + b[1] * a[2], a[2] * b[2])
                  ELSE NaN : a \in {x}, b \in {y}} : TRUE
NumSub(x, y) ==
    CHOOSE r \in {IF IsFinite(a) /\ IsFinite(b)
                  THEN Num(a[1] * b[2] - b[1] * a[2], a[2] * b[2])
                  ELSE NaN : a \in {x}, b \in {y}} : TRUE
NumMul(x, y) ==
    CHOOSE r \in {IF IsFinite(a) /\ IsFinite(b)
                  THEN Num(a[1] * b[1], a[2] * b[2])
                  ELSE NaN : a \in {x}, b \in {y}} : TRUE
NumDiv(x, y) ==
    CHOOSE r \in {IF IsFinite(a) /\ IsFinite(b)
                  THEN Num(a[1] * b[2], a[2] * b[1])
                  ELSE NaN : a \in {x}, b \in {y}} : TRUE

\* x / this.state.duration, where duration is <<>> while the key is absent
\* from this.state (undefined) and <<ms, s>> once the onload of session s has
\* recorded ms.
DivByDuration(x, duration) ==
    IF duration = <<>> THEN NaN ELSE NumDiv(x, Lit(duration[1]))

\* ------------------------------------------------------------------ helpers
\* easeOutCubic(t, b, c, d) = c * ((t / d - 1)^3 + 1) + b
easeOutCubic(t, b, c, d) ==
    CHOOSE r \in {NumAdd(NumMul(c, NumAdd(NumMul(n, NumMul(n, n)), Lit(1))), b)
                    : n \in {NumSub(NumDiv(t, d), Lit(1))}} : TRUE

Pt(x, y) == <<Lit(x), Lit(y)>>
getPlayIconPoints == <<Pt(3, 2), Pt(3, 6), Pt(7, 4), Pt(7, 4)>>
getStopIconPoints == <<Pt(2, 2), Pt(2, 6), Pt(6, 6), Pt(6, 2)>>

\* The closure of an animateIcon call; NoRun stands where there is none.
NoRun == [id |-> 0, shape |-> "play", startTime |-> 0, duration |-> 0,
          initialPoints |-> getPlayIconPoints, finalPoints |-> getPlayIconPoints]

\* ------------------------------------------------------------------- state
VARIABLES
    props,      \* this.props: active, url, audioFormat, audioId and the fixed lengths
    state,      \* this.state: progress, loading, iconPoints, duration
    howler,     \* this.howler: index into sessions (0 before the first bind)
    sessions,   \* every Howl ever constructed, in order of construction
    rafQueue,   \* callbacks registered with requestAnimationFrame, oldest first
    timers,     \* callbacks registered with window.setTimeout, oldest first
    now,        \* new Date().getTime()
    mounted,    \* FALSE once componentWillUnmount has run
    iconRun,    \* the closure of the most recent animateIcon call
    trace,      \* what the most recent handler did, in program order
    lastOp,     \* which handler ran most recently
    updates     \* number of prop updates delivered so far

vars == <<props, state, howler, sessions, rafQueue, timers, now, mounted,
          iconRun, trace, lastOp, updates>>

\* The component instance the methods work on.
This ==
    [props |-> props, state |-> state, howler |-> howler, sessions |-> sessions,
     rafQueue |-> rafQueue, timers |-> timers, now |-> now, mounted |-> mounted,
     iconRun |-> iconRun, trace |-> <<>>, pending |-> <<>>, callbacks |-> <<>>]

Commit(c) ==
    /\ props' = c.props
    /\ state' = c.state
    /\ howler' = c.howler
    /\ sessions' = c.sessions
    /\ rafQueue' = c.rafQueue
    /\ timers' = c.timers
    /\ mounted' = c.mounted
    /\ iconRun' = c.iconRun
    /\ trace' = c.trace

Log(c, op, s, a) ==
    [c EXCEPT !.trace = Append(@, [op |-> op, s |-> s, a |-> a])]

\* ------------------------------------------------------------ audio engine
Released(sess) == sess.unloads > 0

NewHowl(c) ==
    LET sess == [src |-> c.props.url, format |-> c.props.audioFormat,
                 loaded |-> FALSE, unloads |-> 0, playing |-> FALSE]
        c1 == [c EXCEPT !.sessions = Append(@, sess), !.howler = Len(c.sessions) + 1]
    IN  Log(c1, "new Howl", c1.howler, <<>>)

\* play() starts output on a loaded session; before the load has completed
\* the audible result is whatever the engine makes of it (audible).
HowlPlay(c, audible) ==
    LET s == c.howler
        on == IF c.sessions[s].loaded THEN TRUE
              ELSE IF Released(c.sessions[s]) THEN FALSE ELSE audible
    IN  Log([c EXCEPT !.sessions[s].playing = on], "play", s, <<>>)

HowlFade(c, from, to, len) == Log(c, "fade", c.howler, <<from, to, len>>)

HowlStop(c) ==
    LET s == c.howler
    IN  Log([c EXCEPT !.sessions[s].playing = FALSE], "stop", s, <<>>)

\* unload() stops the session and returns it to the unloaded state.
HowlUnload(c) ==
    LET s == c.howler
    IN  Log([c EXCEPT !.sessions[s].playing = FALSE,
                      !.sessions[s].loaded = FALSE,
                      !.sessions[s].unloads = @ + 1], "unload", s, <<>>)

\* The positions seek() can return, in seconds: the reset cursor of a loaded
\* session that is stopped, and otherwise any position of the clip (a session
\* that is not playing because it is unloaded or released reports nothing
\* meaningful).
SeekValues(sess) ==
    IF sess.loaded /\ ~sess.playing THEN {0}
    ELSE 0..ClipSeconds(sess.src)

\* ---------------------------------------------------------------- setState
\* setState called from a frame, timer or engine callback is applied at once;
\* on an unmounted component it does nothing and drops its callback.
SetProgressNow(c, value) ==
    IF c.mounted
    THEN Log([c EXCEPT !.state.progress = value], "setState progress", c.howler, <<>>)
    ELSE c

\* ----------------------------------------------------------------- methods
\* Mutant: the previous Howl is not unloaded before the new one is made.
setupHowler_NoUnload(c) == NewHowl(c)

setupHowler(c) ==
    LET c1 == IF c.howler # 0 THEN HowlUnload(c) ELSE c
    IN  NewHowl(c1)

\* Mutant: the loop does not look at the active flag.
updateProgress_NoCheck(c) ==
    Log([c EXCEPT !.rafQueue = Append(@, [kind |-> "progress", run |-> NoRun])],
        "requestAnimationFrame progress", 0, <<>>)

updateProgress(c) ==
    IF ~c.props.active THEN c
    ELSE Log([c EXCEPT !.rafQueue = Append(@, [kind |-> "progress", run |-> NoRun])],
             "requestAnimationFrame progress", 0, <<>>)

animateIcon(c, shape) ==
    LET run == [id |-> c.iconRun.id + 1,
                shape |-> shape,
                startTime |-> c.now,
                duration |-> c.props.iconAnimationLength,
                initialPoints |-> c.state.iconPoints,
                finalPoints |-> IF shape = "stop" THEN getStopIconPoints
                                                  ELSE getPlayIconPoints]
        c1 == [c EXCEPT !.iconRun = run,
                        !.rafQueue = Append(@, [kind |-> "icon", run |-> run])]
    IN  Log(c1, "animateIcon " \o shape, 0, <<>>)

\* Mutant: the volume fade is requested before play().
triggerPlayAudio_FadeFirst(c, audible) ==
    LET c1 == HowlFade(c, 0, 1, c.props.fadeInLength)
        c2 == HowlPlay(c1, audible)
        c3 == animateIcon(c2, "stop")
        c4 == [c3 EXCEPT !.pending = Append(@, Lit(0)),
                         !.callbacks = Append(@, "updateProgress")]
    IN  Log(c4, "setState progress 0", 0, <<>>)

triggerPlayAudio(c, audible) ==
    LET c1 == HowlPlay(c, audible)
        c2 == HowlFade(c1, 0, 1, c1.props.fadeInLength)
        c3 == animateIcon(c2, "stop")
        c4 == [c3 EXCEPT !.pending = Append(@, Lit(0)),
                         !.callbacks = Append(@, "updateProgress")]
    IN  Log(c4, "setState progress 0", 0, <<>>)

\* Mutant: stop() is deferred by setTimeout(..., 0) instead of the fade length.
triggerStopAudio_NoDelay(c) ==
    LET c1 == HowlFade(c, 1, 0, c.props.fadeOutLength)
        c2 == Log([c1 EXCEPT !.timers = Append(@, [at |-> c1.now, set |-> c1.now,
                                                   delay |-> c1.props.fadeOutLength])],
                  "setTimeout stop", 0, <<c1.props.fadeOutLength>>)
        c3 == animateIcon(c2, "play")
        c4 == [c3 EXCEPT !.pending = Append(@, Lit(0))]
    IN  Log(c4, "setState progress 0", 0, <<>>)

triggerStopAudio(c) ==
    LET c1 == HowlFade(c, 1, 0, c.props.fadeOutLength)
        c2 == Log([c1 EXCEPT !.timers = Append(@, [at |-> c1.now + c1.props.fadeOutLength,
                                                   set |-> c1.now,
                                                   delay |-> c1.props.fadeOutLength])],
                  "setTimeout stop", 0, <<c1.props.fadeOutLength>>)
        c3 == animateIcon(c2, "play")
        c4 == [c3 EXCEPT !.pending = Append(@, Lit(0))]
    IN  Log(c4, "setState progress 0", 0, <<>>)

\* Mutant: justStartedPlaying forgets to look at the current active flag.
componentWillReceiveProps_NoEdge(c, nextProps, audible) ==
    LET justStartedPlaying == nextProps.active
        justStoppedPlaying == c.props.active /\ ~nextProps.active
        newAudioClip == c.props.url # nextProps.url
        c1 == IF justStartedPlaying THEN triggerPlayAudio(c, audible)
              ELSE IF justStoppedPlaying THEN triggerStopAudio(c)
              ELSE c
    IN  IF newAudioClip THEN setupHowler(c1) ELSE c1

componentWillReceiveProps(c, nextProps, audible) ==
    LET justStartedPlaying == ~c.props.active /\ nextProps.active
        justStoppedPlaying == c.props.active /\ ~nextProps.active
        newAudioClip == c.props.url # nextProps.url
        c1 == IF justStartedPlaying THEN triggerPlayAudio(c, audible)
              ELSE IF justStoppedPlaying THEN triggerStopAudio(c)
              ELSE c
    IN  IF newAudioClip THEN setupHowler(c1) ELSE c1

\* The frame callback of updateProgress.
progressFrame(c, seek) ==
    LET c1 == Log(c, "seek", c.howler, <<>>)
        value == DivByDuration(NumMul(Lit(seek), Lit(MsPerSecond)), c1.state.duration)
    IN  updateProgress(SetProgressNow(c1, value))

\* The frame callback of animateIcon's updatePosition.
iconFrame(c, run) ==
    LET time == c.now - run.startTime
        ease(i, k) == easeOutCubic(Lit(time), run.initialPoints[i][k],
                                   NumSub(run.finalPoints[i][k], run.initialPoints[i][k]),
                                   Lit(run.duration))
        newPoints == [i \in 1..4 |-> <<ease(i, 1), ease(i, 2)>>]
        c1 == Log(c, "updatePosition", run.id, <<time>>)
    IN  IF time > run.duration THEN c1
        ELSE IF ~c1.mounted THEN c1
        ELSE Log([c1 EXCEPT !.state.iconPoints = newPoints,
                            !.rafQueue = Append(@, [kind |-> "icon", run |-> run])],
                 "setState iconPoints", run.id, <<>>)

frameCallback(c, cb, seek) ==
    IF cb.kind = "progress" THEN progressFrame(c, seek) ELSE iconFrame(c, cb.run)

\* One display frame: the callbacks registered before it run oldest first;
\* what they register waits for the next frame.
RECURSIVE runFrame(_, _, _)
runFrame(c, q, seek) ==
    IF q = <<>> THEN c
    ELSE CHOOSE r \in {runFrame(d, Tail(q), seek) : d \in {frameCallback(c, Head(q), seek)}} : TRUE

\* React delivering nextProps: componentWillReceiveProps runs with the old
\* this.props, then props and the batched state are replaced and the setState
\* callbacks run.
receiveProps(c, nextProps, audible) ==
    LET c1 == componentWillReceiveProps(c, nextProps, audible)
        c2 == [c1 EXCEPT !.props = nextProps,
                         !.state.progress = IF c1.pending = <<>> THEN @
                                            ELSE c1.pending[Len(c1.pending)]]
    IN  IF c2.callbacks = <<>> THEN c2 ELSE updateProgress(c2)

componentWillUnmount(c) == [HowlUnload(c) EXCEPT !.mounted = FALSE]

onload(c) ==
    LET s == c.howler
        c1 == Log([c EXCEPT !.sessions[s].loaded = TRUE], "duration", s, <<>>)
        ms == ClipSeconds(c1.sessions[s].src) * MsPerSecond
    IN  Log([c1 EXCEPT !.state.loading = FALSE, !.state.duration = <<ms, s>>],
            "setState loading duration", s, <<>>)

stopTimer(c) == HowlStop([c EXCEPT !.timers = Tail(@)])

\* Mutant: the click starts the audio itself instead of asking the owner.
clickHandler_PlaysItself(c) ==
    IF c.props.active THEN Log(c, "props.stop", 0, <<>>)
    ELSE HowlPlay(Log(c, "props.play " \o c.props.audioId, 0, <<>>), TRUE)

\* props.stop and props.play belong to the owner; what they do to the
\* component arrives later as a prop update.
clickHandler(c) ==
    IF c.props.active THEN Log(c, "props.stop", 0, <<>>)
    ELSE Log(c, "props.play " \o c.props.audioId, 0, <<>>)

\* ------------------------------------------------------------------ actions
NoTimer == [at |-> 0, set |-> 0, delay |-> 0]

Op(kind, timer) ==
    [kind |-> kind, prev |-> props, prevHowler |-> howler,
     prevPoints |-> state.iconPoints, timer |-> timer]

constructed(p) ==
    setupHowler([props |-> p,
                 state |-> [progress |-> Lit(0), loading |-> TRUE,
                            iconPoints |-> getPlayIconPoints, duration |-> <<>>],
                 howler |-> 0, sessions |-> <<>>, rafQueue |-> <<>>, timers |-> <<>>,
                 now |-> 0, mounted |-> TRUE,
                 iconRun |-> NoRun,
                 trace |-> <<>>, pending |-> <<>>, callbacks |-> <<>>])

InitialProps ==
    { [active |-> a, url |-> InitialUrl, audioFormat |-> "mp3", audioId |-> "id",
       iconAnimationLength |-> l.iconAnimationLength,
       fadeInLength |-> fadeInLengthDefault,
       fadeOutLength |-> l.fadeOutLength] : a \in BOOLEAN, l \in Lengths }

Init ==
    \E p \in InitialProps :
        LET c == constructed(p)
        IN  /\ props = c.props
            /\ state = c.state
            /\ howler = c.howler
            /\ sessions = c.sessions
            /\ rafQueue = c.rafQueue
            /\ timers = c.timers
            /\ mounted = c.mounted
            /\ iconRun = c.iconRun
            /\ trace = c.trace
            /\ now = 0
            /\ updates = 0
            /\ lastOp = [kind |-> "init", prev |-> p, prevHowler |-> 0,
                         prevPoints |-> c.state.iconPoints, timer |-> NoTimer]

\* The owner re-renders with new props (possibly the same ones).
ReceiveProps ==
    /\ mounted
    /\ updates < MaxUpdates
    /\ \E a \in BOOLEAN, u \in (IF Len(sessions) < MaxSessions THEN Urls ELSE {props.url}) :
       \E audible \in (IF sessions[howler].loaded \/ a = props.active
                       THEN {TRUE} ELSE BOOLEAN) :
          Commit(receiveProps(This, [props EXCEPT !.active = a, !.url = u], audible))
    /\ updates' = updates + 1
    /\ lastOp' = Op("props", NoTimer)
    /\ UNCHANGED now

\* One display frame. seek is what this.howler.seek() returns in it, if it is
\* asked and the answer is used.
Frame ==
    /\ rafQueue # <<>>
    /\ lastOp' = Op("frame", NoTimer)
    /\ \E seek \in (IF mounted /\ \E i \in 1..Len(rafQueue) : rafQueue[i].kind = "progress"
                    THEN SeekValues(sessions[howler]) ELSE {0}) :
          \E c \in {runFrame([This EXCEPT !.rafQueue = <<>>], rafQueue, seek)} : Commit(c)
    /\ UNCHANGED <<now, updates>>

TimerFire ==
    /\ timers # <<>>
    /\ now >= Head(timers).at
    /\ Commit(stopTimer(This))
    /\ lastOp' = Op("timer", Head(timers))
    /\ UNCHANGED <<now, updates>>

OnLoad ==
    /\ ~sessions[howler].loaded
    /\ ~Released(sessions[howler])
    /\ Commit(onload(This))
    /\ lastOp' = Op("load", NoTimer)
    /\ UNCHANGED <<now, updates>>

Unmount ==
    /\ mounted
    /\ Commit(componentWillUnmount(This))
    /\ lastOp' = Op("unmount", NoTimer)
    /\ UNCHANGED <<now, updates>>

\* The user clicks the svg (while the owner can still answer with an update).
Click ==
    /\ mounted
    /\ updates < MaxUpdates
    /\ Commit(clickHandler(This))
    /\ lastOp' = Op("click", NoTimer)
    /\ UNCHANGED <<now, updates>>

\* Time passes. Only differences between clock readings are ever computed
\* (lines 100, 151), so the clock is advanced only while a timer or an icon run
\* is still waiting for it.
ClockAwaited ==
    \/ \E i \in 1..Len(timers) : timers[i].at > now
    \/ \E i \in 1..Len(rafQueue) :
          /\ rafQueue[i].kind = "icon"
          /\ now - rafQueue[i].run.startTime <= rafQueue[i].run.duration

Tick ==
    /\ now < MaxTime
    /\ ClockAwaited
    /\ now' = now + 1
    /\ UNCHANGED <<props, state, howler, sessions, rafQueue, timers, mounted,
                   iconRun, trace, lastOp, updates>>

Next == ReceiveProps \/ Frame \/ TimerFire \/ OnLoad \/ Unmount \/ Click \/ Tick

Spec == Init /\ [][Next]_vars

\* The browser keeps delivering display frames while callbacks are registered,
\* and the clock keeps running.
FairSpec == Spec /\ WF_vars(Frame) /\ WF_vars(Tick)

\* ------------------------------------------------------------------- claims
HasOp(op) == \E i \in 1..Len(trace) : trace[i].op = op

\* What the handler did apart from rebinding the session.
Sequenced == SelectSeq(trace, LAMBDA e : e.op \notin {"unload", "new Howl"})

Activated == lastOp.kind = "props" /\ ~lastOp.prev.active /\ props.active
Deactivated == lastOp.kind = "props" /\ lastOp.prev.active /\ ~props.active
Ev(op, s, a) == [op |-> op, s |-> s, a |-> a]

\* C1: a prop update that leaves active unchanged issues no play(), stop() or
\* fade() and schedules no stop() timer; play() is issued only by an
\* inactive->active update and a stop() is scheduled only by an
\* active->inactive update.
C1_EngineCallsOnlyOnTransition ==
    /\ (lastOp.kind = "props" /\ lastOp.prev.active = props.active)
          => ~(HasOp("play") \/ HasOp("stop") \/ HasOp("fade") \/ HasOp("setTimeout stop"))
    /\ HasOp("play") => Activated
    /\ HasOp("setTimeout stop") => Deactivated

\* An update that kept active = true but changed the url (so it did rebind).
C1_Witness ==
    /\ lastOp.kind = "props"
    /\ lastOp.prev.active /\ props.active
    /\ lastOp.prev.url # props.url
    /\ HasOp("new Howl")

\* C2: an inactive->active update calls, in this order, play() once and
\* fade(0, 1, fadeInLength) once on the session current at that moment, starts
\* one icon run toward the stop shape, resets progress to 0 and then starts the
\* progress loop; until a frame runs, iconPoints are those from before the
\* update and progress is 0.
C2_ActivateSequence ==
    Activated =>
        /\ Sequenced = << Ev("play", lastOp.prevHowler, <<>>),
                          Ev("fade", lastOp.prevHowler, <<0, 1, props.fadeInLength>>),
                          Ev("animateIcon stop", 0, <<>>),
                          Ev("setState progress 0", 0, <<>>),
                          Ev("requestAnimationFrame progress", 0, <<>>) >>
        /\ state.iconPoints = lastOp.prevPoints
        /\ state.progress = Lit(0)
        /\ iconRun.shape = "stop"
        /\ iconRun.finalPoints = getStopIconPoints
        /\ Len(rafQueue) >= 2
        /\ rafQueue[Len(rafQueue) - 1] = [kind |-> "icon", run |-> iconRun]
        /\ rafQueue[Len(rafQueue)].kind = "progress"
        /\ Cardinality({i \in 1..Len(rafQueue) :
                            rafQueue[i].run.id = iconRun.id}) = 1

\* A re-activation while the icon shows the stop shape.
C2_Witness ==
    /\ Activated
    /\ lastOp.prevPoints = getStopIconPoints
    /\ HasOp("play")

\* C3: an active->inactive update calls fade(1, 0, fadeOutLength) once,
\* schedules one stop() with delay fadeOutLength, starts one icon run toward
\* the play shape and sets progress to 0; stop() is never called inside the
\* update, and when it is called at least fadeOutLength ms have passed since
\* the update that scheduled it.
C3_DeactivateSequence ==
    /\ Deactivated =>
        /\ Sequenced = << Ev("fade", lastOp.prevHowler, <<1, 0, props.fadeOutLength>>),
                          Ev("setTimeout stop", 0, <<props.fadeOutLength>>),
                          Ev("animateIcon play", 0, <<>>),
                          Ev("setState progress 0", 0, <<>>) >>
        /\ state.progress = Lit(0)
        /\ timers # <<>>
        /\ timers[Len(timers)].at = timers[Len(timers)].set + props.fadeOutLength
        /\ iconRun.shape = "play"
        /\ iconRun.finalPoints = getPlayIconPoints
        /\ Cardinality({i \in 1..Len(rafQueue) :
                            rafQueue[i].run.id = iconRun.id}) = 1
    /\ HasOp("stop") =>
        /\ lastOp.kind = "timer"
        /\ now >= lastOp.timer.set + props.fadeOutLength

\* A deferred stop() reaching the engine after a non-zero fade-out.
C3_Witness ==
    /\ lastOp.kind = "timer"
    /\ props.fadeOutLength > 0
    /\ HasOp("stop")
    /\ ~props.active

\* C4: while the button is inactive no progress update is published and
\* progress stays 0 (stated for a session that has loaded, so that a duration
\* is on record).
C4_NoProgressWhileInactive ==
    (~props.active /\ sessions[howler].loaded /\ state.duration # <<>>) =>
        /\ IsFinite(state.progress) => state.progress = Lit(0)
        /\ ~(lastOp.kind = "frame" /\ HasOp("setState progress"))

\* C5: the published progress is a number in [0, 1].
C5_ProgressInUnitInterval ==
    /\ IsFinite(state.progress)
    /\ 0 <= state.progress[1]
    /\ state.progress[1] <= state.progress[2]

\* C6: after an update that changes the url, the session of the old url is
\* released and the one live session is bound to the url and format of the new
\* props.
C6_ReboundToNewIdentity ==
    (lastOp.kind = "props" /\ lastOp.prev.url # props.url) =>
        /\ Released(sessions[lastOp.prevHowler])
        /\ Cardinality({i \in 1..Len(sessions) : ~Released(sessions[i])}) = 1
        /\ ~Released(sessions[howler])
        /\ sessions[howler].src = props.url
        /\ sessions[howler].format = props.audioFormat

\* C7: while the component is mounted, loading = false implies the currently
\* bound session has finished loading.
C7_LoadingUntilReady ==
    (mounted /\ ~state.loading) => sessions[howler].loaded

\* C8: once the session has been rebound, a progress update published by a
\* frame divides by a duration that the current session reported.
C8_ProgressUsesOwnDuration ==
    (lastOp.kind = "frame" /\ HasOp("setState progress")
        /\ Len(sessions) > 1 /\ state.duration # <<>>)
      => state.duration[2] = howler

\* C9: after componentWillUnmount no frame or timer callback publishes state
\* or calls the audio engine.
C9_NothingRunsAfterUnmount ==
    (~mounted /\ lastOp.kind \in {"frame", "timer"}) =>
        \A i \in 1..Len(trace) : trace[i].op = "updatePosition"

\* C10: when a frame of the latest icon run has run at or after the run's
\* duration, iconPoints equal the run's target shape (stated for a run of
\* non-zero duration).
C10_IconReachesTarget ==
    (mounted /\ lastOp.kind = "frame" /\ iconRun.duration > 0
        /\ \E i \in 1..Len(trace) : /\ trace[i].op = "updatePosition"
                                     /\ trace[i].s = iconRun.id
                                     /\ trace[i].a[1] >= iconRun.duration)
      => state.iconPoints = iconRun.finalPoints

\* C11: a click calls exactly one owner callback, stop() when active and
\* play(audioId) when not, and changes nothing of the component: props, state,
\* session, frame and timer queues are as before and no engine call is made.
C11_ClickOnlyRequests ==
    [][lastOp'.kind = "click" =>
          /\ trace' = << Ev(IF props.active THEN "props.stop"
                                            ELSE "props.play " \o props.audioId, 0, <<>>) >>
          /\ UNCHANGED <<props, state, howler, sessions, rafQueue, timers,
                         mounted, iconRun>>]_vars

\* A click on an inactive button whose session has loaded.
C11_Witness ==
    /\ lastOp.kind = "click"
    /\ ~props.active
    /\ sessions[howler].loaded
    /\ trace = << Ev("props.play " \o props.audioId, 0, <<>>) >>

\* C12: every iconPoints update is published by the most recently started
\* icon run; a superseded run publishes nothing more.
C12_OnlyLatestRunPublishes ==
    \A i \in 1..Len(trace) :
        trace[i].op = "setState iconPoints" => trace[i].s = iconRun.id

\* C13: at most one progress frame callback is pending.
C13_OneProgressLoop ==
    Cardinality({i \in 1..Len(rafQueue) : rafQueue[i].kind = "progress"}) <= 1

\* C14: at most one session is unreleased (exactly the bound one while
\* mounted, none after unmount), no session is released twice, and a rebind
\* unloads the old session before it constructs the new one.
C14_OneLiveSession ==
    /\ \A i \in 1..Len(sessions) : sessions[i].unloads <= 1
    /\ {i \in 1..Len(sessions) : ~Released(sessions[i])}
          = (IF mounted THEN {howler} ELSE {})
    /\ \A i \in 1..Len(trace) :
          (trace[i].op = "new Howl" /\ trace[i].s > 1) =>
              /\ i > 1
              /\ trace[i - 1] = Ev("unload", trace[i].s - 1, <<>>)

\* Unmounted after a rebind: two sessions were bound and both are released.
C14_Witness ==
    /\ ~mounted
    /\ Len(sessions) >= 2
    /\ \A i \in 1..Len(sessions) : sessions[i].unloads = 1

\* C15: play() is only called on a session whose load has completed.
C15_PlayOnlyWhenLoaded ==
    \A i \in 1..Len(trace) :
        (trace[i].op = "play" /\ ~HasOp("unload")) => sessions[trace[i].s].loaded

\* No loop is left to cancel: every registered icon callback belongs to a run
\* whose duration ends beyond the modelled time, and a progress callback is
\* registered only while the button is active.
Quiet ==
    /\ \A i \in 1..Len(rafQueue) :
          rafQueue[i].kind = "icon" =>
              rafQueue[i].run.startTime + rafQueue[i].run.duration >= MaxTime
    /\ props.active \/ \A i \in 1..Len(rafQueue) : rafQueue[i].kind # "progress"

\* C16: under fair frames and a running clock the loops cancel themselves:
\* from some point on no callback of an icon run whose duration ends within
\* the modelled time is registered, and no progress callback is registered
\* unless the button is active.
C16_LoopsCancel == <>[]Quiet

\* After an activate and a deactivate, frames have emptied the queue.
C16_Witness ==
    /\ lastOp.kind = "frame"
    /\ iconRun.id >= 2
    /\ iconRun.duration > 0
    /\ ~props.active
    /\ rafQueue = <<>>
    /\ HasOp("seek")
    /\ HasOp("updatePosition")

\* C17: a deferred stop() does not reach the engine once the button has been
\* activated again (stated for a bound session that has loaded).
C17_NoStaleStop ==
    (lastOp.kind = "timer" /\ HasOp("stop") /\ sessions[howler].loaded)
      => ~props.active

\* C18: while mounted and active, a bound session that has loaded is playing
\* (no end of clip is modelled, so the clip has never reached its end).
C18_ActiveIsPlaying ==
    (mounted /\ props.active /\ sessions[howler].loaded)
      => sessions[howler].playing

====
